---------------------------- MODULE Spec2Model ----------------------------
(***************************************************************************)
(* tree-fs: materialization of a declared directory tree and the scoped   *)
(* cleanup of its handle.                                                  *)
(*                                                                         *)
(* Two materializers are modelled from the source:                        *)
(*   - TempDirectoryBuilder::build  (src/src/lib.rs), the strict variant;  *)
(*   - TreeBuilder::create          (src/src/builder.rs), the tolerant one.*)
(* A path is the sequence of its std::path components: "/" is RootDir,    *)
(* "." is CurDir, ".." is ParentDir, any other string a Normal component.  *)
(* The filesystem is a function from canonical absolute locations         *)
(* (sequences of Normal components below the OS root <<>>) to nodes; it    *)
(* holds no symbolic links, and every call is made by an unprivileged     *)
(* process whose working directory is Cwd.                                 *)
(***************************************************************************)
EXTENDS Naturals, Sequences, FiniteSets, TLC

(***************************************************************************)
(* Bounds of the model.                                                    *)
(***************************************************************************)
\* builder configuration calls (root_folder, the flag setters, add*) in one run
MaxCalls == 2
\* materializations (build, create, from_yaml_str calls) in one run; the program
\* makes no builder call after its last materialization
MaxRuns == 2
\* iterations of the loop of random_temp_directory in one call
MaxDraws == 3

(***************************************************************************)
(* Lexical paths (std::path::Path, path_clean::PathClean).                 *)
(***************************************************************************)
Cwd == <<>>

IsAbsolute(p) == p # <<>> /\ p[1] = "/"

\* Path::components(): a CurDir component survives only in first position;
\* the empty segment "" stands for a redundant or trailing separator, which
\* yields no component.
Components(p) ==
  LET keep(i) == p[i] # "" /\ (p[i] # "." \/ i = 1)
      RECURSIVE Go(_)
      Go(i) == IF i > Len(p) THEN <<>>
               ELSE IF keep(i) THEN <<p[i]>> \o Go(i + 1) ELSE Go(i + 1)
  IN Go(1)

\* PathBuf::join (PathBuf::push): an absolute argument replaces the base; an
\* empty argument leaves the base with a trailing separator.
Join(base, p) ==
  IF IsAbsolute(p) THEN p
  ELSE IF p = <<>>
       THEN IF base = <<>> \/ base[Len(base)] \in {"/", ""} THEN base
            ELSE Append(base, "")
       ELSE Components(base \o p)

\* One step of path_clean's component fold.
CleanStep(out, c) ==
  IF c = "." THEN out
  ELSE IF c = ".."
       THEN IF out = <<>> THEN <<c>>
            ELSE LET l == out[Len(out)]
                 IN IF l = "/" THEN out
                    ELSE IF l = ".." THEN Append(out, c)
                    ELSE SubSeq(out, 1, Len(out) - 1)
       ELSE Append(out, c)

\* PathClean::clean: purely lexical; the empty result is ".".
Clean(p) ==
  LET RECURSIVE Fold(_, _, _)
      Fold(c, out, i) == IF i > Len(c) THEN out ELSE Fold(c, CleanStep(out, c[i]), i + 1)
      r == Fold(Components(p), <<>>, 1)
  IN IF r = <<>> THEN <<".">> ELSE r

\* Path::starts_with on two sequences of components: component-wise prefix.
StartsWith(p, base) ==
  Len(base) <= Len(p) /\ SubSeq(p, 1, Len(base)) = base

\* Path::parent: None for the empty path and for a path ending in RootDir.
HasParent(p) == LET Last(c) == c # <<>> /\ c[Len(c)] # "/" IN Last(Components(p))
Parent(p) == LET Front(c) == SubSeq(c, 1, Len(c) - 1) IN Front(Components(p))

(***************************************************************************)
(* The filesystem (std::fs as called by the library).                      *)
(***************************************************************************)
DirNode == [kind |-> "dir", content |-> <<>>, ro |-> FALSE]
FileNode(c, r) == [kind |-> "file", content |-> c, ro |-> r]

IsDirAt(f, loc) == loc \in DOMAIN f /\ f[loc].kind = "dir"

Put(f, loc, node) == [l \in DOMAIN f \cup {loc} |-> IF l = loc THEN node ELSE f[l]]

Up(loc) == IF loc = <<>> THEN <<>> ELSE SubSeq(loc, 1, Len(loc) - 1)

\* Kernel path walk: every component is looked up in an existing directory.
Resolve(f, p) ==
  LET RECURSIVE Walk(_, _)
      Walk(cur, i) ==
        IF i > Len(p) THEN [ok |-> TRUE, loc |-> cur, err |-> "none"]
        ELSE IF p[i] = ""
             THEN IF cur \in DOMAIN f /\ ~IsDirAt(f, cur)
                  THEN [ok |-> FALSE, loc |-> cur, err |-> "ENOTDIR"]
                  ELSE Walk(cur, i + 1)
        ELSE IF ~IsDirAt(f, cur)
             THEN [ok |-> FALSE, loc |-> cur,
                   err |-> IF cur \in DOMAIN f THEN "ENOTDIR" ELSE "ENOENT"]
             ELSE Walk(CASE p[i] = "/" -> <<>>
                         [] p[i] = "." -> cur
                         [] p[i] = ".." -> Up(cur)
                         [] OTHER -> Append(cur, p[i]), i + 1)
  IN IF p = <<>> THEN [ok |-> FALSE, loc |-> <<>>, err |-> "ENOENT"]
     ELSE Walk(Cwd, 1)

\* Path::exists / Path::is_dir (metadata succeeds).
Exists(f, p) == LET At(r) == r.ok /\ r.loc \in DOMAIN f IN At(Resolve(f, p))
IsDir(f, p) == LET At(r) == r.ok /\ IsDirAt(f, r.loc) IN At(Resolve(f, p))
IsFile(f, p) ==
  LET At(r) == r.ok /\ r.loc \in DOMAIN f /\ f[r.loc].kind = "file"
  IN At(Resolve(f, p))

IoOk(f) == [ok |-> TRUE, fs |-> f, err |-> "none"]
IoErr(f, e) == [ok |-> FALSE, fs |-> f, err |-> e]

\* a path without its trailing separators
RECURSIVE Strip(_)
Strip(p) == IF p # <<>> /\ p[Len(p)] = "" THEN Strip(SubSeq(p, 1, Len(p) - 1)) ELSE p

\* mkdir(2): trailing separators of the new name are ignored
Mkdir(f, p) ==
  LET At(r) == IF ~r.ok THEN IoErr(f, r.err)
               ELSE IF r.loc \in DOMAIN f THEN IoErr(f, "EEXIST")
               ELSE IoOk(Put(f, r.loc, DirNode))
  IN At(Resolve(f, Strip(p)))

\* std::fs::create_dir_all (DirBuilder::create_dir_all)
RECURSIVE CreateDirAll(_, _)
CreateDirAll(f, p) ==
  IF p = <<>> THEN IoOk(f)
  ELSE LET \* after the parent was created: mkdir again
           Again(g, m2) == IF m2.ok THEN m2
                           ELSE IF IsDir(g, p) THEN IoOk(g) ELSE m2
           AfterParent(c) == IF ~c.ok THEN c ELSE Again(c.fs, Mkdir(c.fs, p))
           \* the first mkdir
           First(m) ==
             IF m.ok THEN m
             ELSE IF m.err # "ENOENT"
                  THEN IF IsDir(f, p) THEN IoOk(f) ELSE m
                  ELSE IF ~HasParent(p) THEN IoErr(f, "EOTHER")
                       ELSE AfterParent(CreateDirAll(f, Parent(p)))
       IN First(Mkdir(f, p))

\* std::fs::create_dir
CreateDir(f, p) == Mkdir(f, p)

\* File::create: open(O_WRONLY | O_CREAT | O_TRUNC); a name with a trailing
\* separator is refused as a directory
FileCreate(f, p) ==
  LET At(r) ==
        IF p # <<>> /\ p[Len(p)] = "" THEN IoErr(f, "EISDIR")
        ELSE IF ~r.ok THEN IoErr(f, r.err)
        ELSE IF r.loc \notin DOMAIN f THEN IoOk(Put(f, r.loc, FileNode(<<>>, FALSE)))
        ELSE IF f[r.loc].kind = "dir" THEN IoErr(f, "EISDIR")
        ELSE IF f[r.loc].ro THEN IoErr(f, "EACCES")
        ELSE IoOk(Put(f, r.loc, FileNode(<<>>, FALSE)))
  IN At(Resolve(f, p))

\* a write_all that writes nothing
WriteAll_Nothing(f, p, bytes) == IoOk(f)

\* Write::write_all on the file just opened at p
WriteAll(f, p, bytes) ==
  LET At(r) == IoOk(Put(f, r.loc, FileNode(bytes, f[r.loc].ro)))
  IN At(Resolve(f, p))

\* a copy that creates the destination before it opens the source
Copy_DestinationFirst(f, src, dst) ==
  LET Fill(c) ==
        IF ~c.ok THEN c
        ELSE IF ~IsFile(c.fs, src) THEN IoErr(c.fs, "ENOENT")
        ELSE IoOk(Put(c.fs, Resolve(c.fs, dst).loc, c.fs[Resolve(c.fs, src).loc]))
  IN Fill(FileCreate(f, dst))

\* std::fs::copy: the source is opened first; content and permissions are copied.
Copy(f, src, dst) ==
  IF ~Exists(f, src) THEN IoErr(f, "ENOENT")
  ELSE IF ~IsFile(f, src) THEN IoErr(f, "EINVAL")
  ELSE LET Fill(s, c) ==
             IF ~c.ok THEN c
             ELSE IoOk(Put(c.fs, Resolve(c.fs, dst).loc, FileNode(s.content, s.ro)))
       IN Fill(f[Resolve(f, src).loc], FileCreate(f, dst))

\* std::fs::metadata + Permissions::set_readonly(true) + std::fs::set_permissions
SetReadonly(f, p) ==
  LET At(r) == IF ~r.ok THEN IoErr(f, r.err)
               ELSE IF r.loc \notin DOMAIN f THEN IoErr(f, "ENOENT")
               ELSE IoOk(Put(f, r.loc, [f[r.loc] EXCEPT !.ro = TRUE]))
  IN At(Resolve(f, p))

\* a remove_dir_all that also unlinks a regular file
RemoveDirAll_AnyNode(f, p) ==
  LET At(r) ==
        IF ~r.ok THEN IoErr(f, r.err)
        ELSE IF r.loc \notin DOMAIN f THEN IoErr(f, "ENOENT")
        ELSE IoOk([l \in {x \in DOMAIN f : ~StartsWith(x, r.loc)} |-> f[l]])
  IN At(Resolve(f, p))

\* std::fs::remove_dir_all: fails on a missing path and on a regular file.
RemoveDirAll(f, p) ==
  LET At(r) ==
        IF ~r.ok THEN IoErr(f, r.err)
        ELSE IF r.loc \notin DOMAIN f THEN IoErr(f, "ENOENT")
        ELSE IF f[r.loc].kind # "dir" THEN IoErr(f, "ENOTDIR")
        ELSE IoOk([l \in {x \in DOMAIN f : ~StartsWith(x, r.loc)} |-> f[l]])
  IN At(Resolve(f, p))

(***************************************************************************)
(* Entries and errors.                                                     *)
(***************************************************************************)
\* settings: "none" is None, "rw" is Some(Settings {readonly: false}),
\* "ro" is Some(Settings {readonly: true}).
Entry(path, kind, content, source, settings) ==
  [path |-> path, kind |-> kind, content |-> content, source |-> source,
   settings |-> settings]

Err(tag, path, index, io) == [tag |-> tag, path |-> path, index |-> index, io |-> io]
NoErr == Err("Ok", <<>>, 0, "none")

StepOk(f) == [fs |-> f, err |-> NoErr]
StepErr(f, e) == [fs |-> f, err |-> e]

(***************************************************************************)
(* TempDirectoryBuilder::build, the strict materializer.                   *)
(***************************************************************************)
\* `if !self.root.exists() { create_dir_all(&self.root) }`
EnsureRoot(f, root) == IF Exists(f, root) THEN IoOk(f) ELSE CreateDirAll(f, root)

\* `self.root.join(&entry.path).clean()`
EntryPath(root, path) == Clean(Join(root, path))

\* a build without the containment check
IsOutside_Never(root, entry_path) == FALSE

\* `!entry_path.starts_with(&self.root)`
IsOutside(root, entry_path) == ~StartsWith(Components(entry_path), Components(root))

\* a build without the duplicate check
IsDuplicate_Never(f, entry_path) == FALSE

\* `entry_path.exists()`
IsDuplicate(f, entry_path) == Exists(f, entry_path)

\* the `match &entry.kind` of build
BuildKind(f, entry_path, entry) ==
  LET \* `.map_err(|e| Error::...(path, e))?`
      MapErr(r, tag, path) ==
        IF r.ok THEN StepOk(r.fs) ELSE StepErr(r.fs, Err(tag, path, 0, r.err))
      Write(c) ==
        IF c.ok THEN StepOk(WriteAll(c.fs, entry_path, entry.content).fs)
        ELSE StepErr(c.fs, Err("FailedToCreateFile", entry_path, 0, c.err))
  IN CASE entry.kind = "Directory" ->
            MapErr(CreateDir(f, entry_path), "FailedToCreateDirectory", entry_path)
       [] entry.kind = "EmptyFile" ->
            MapErr(FileCreate(f, entry_path), "FailedToCreateFile", entry_path)
       [] entry.kind \in {"TextFile", "BinaryFile"} ->
            Write(FileCreate(f, entry_path))
       [] OTHER ->
            MapErr(Copy(f, entry.source, entry_path), "FailedToCopyFile", entry.source)

\* one iteration of the `for (entry_index, entry)` loop of build
BuildEntry(f, root, entry, entry_index) ==
  IF entry.path = <<>>
  THEN StepErr(f, Err("EmptyEntryName", <<>>, entry_index, "none"))
  ELSE LET \* after `create_dir_all(parent)`
           InParent(entry_path, p) ==
             IF ~p.ok
             THEN StepErr(p.fs, Err("FailedToCreateDirectory",
                                    Parent(entry_path), 0, p.err))
             ELSE BuildKind(p.fs, entry_path, entry)
           At(entry_path) ==
             IF IsOutside(root, entry_path)
             THEN StepErr(f, Err("EntryOutsideDirectory", entry.path, 0, "none"))
             ELSE IF IsDuplicate(f, entry_path)
             THEN StepErr(f, Err("DuplicateEntry", entry_path, 0, "none"))
             ELSE InParent(entry_path,
                           IF HasParent(entry_path)
                           THEN CreateDirAll(f, Parent(entry_path)) ELSE IoOk(f))
       IN At(EntryPath(root, entry.path))

(***************************************************************************)
(* TreeBuilder::create, the tolerant materializer.                         *)
(***************************************************************************)
\* `self.root.join(&entry.path)`
DestPath(root, path) == Join(root, path)

\* a create that never skips
SkipEntry_Never(f, override_file, dest_path) == FALSE

\* a create that skips existing paths when override_file is set
SkipEntry_Inverted(f, override_file, dest_path) == override_file /\ Exists(f, dest_path)

\* `!self.override_file && dest_path.exists()`
SkipEntry(f, override_file, dest_path) == ~override_file /\ Exists(f, dest_path)

IoFail(f, io) == StepErr(f, Err("Io", <<>>, 0, io))

\* a create that makes the parent directories of an entry and not the entry
CreateKind_ParentOnly(f, dest_path, entry) ==
  LET Done(p) == IF p.ok THEN StepOk(p.fs) ELSE IoFail(p.fs, p.err)
  IN Done(IF HasParent(dest_path) THEN CreateDirAll(f, Parent(dest_path)) ELSE IoOk(f))

\* the `match &entry.kind` of create
CreateKind(f, dest_path, entry) ==
  LET Dir(d) == IF d.ok THEN StepOk(d.fs) ELSE IoFail(d.fs, d.err)
      Write(c) == IF ~c.ok THEN IoFail(c.fs, c.err)
                  ELSE IF entry.kind = "TextFile"
                       THEN StepOk(WriteAll(c.fs, dest_path, entry.content).fs)
                       ELSE StepOk(c.fs)
      InParent(p) == IF ~p.ok THEN IoFail(p.fs, p.err)
                     ELSE Write(FileCreate(p.fs, dest_path))
  IN IF entry.kind = "Directory"
     THEN Dir(CreateDirAll(f, dest_path))
     ELSE InParent(IF HasParent(dest_path)
                   THEN CreateDirAll(f, Parent(dest_path)) ELSE IoOk(f))

\* a create that applies the settings of directory entries too
ApplySettings_OnDirectories(f, root, entry) ==
  IF entry.settings = "ro"
  THEN LET Set(s) == IF s.ok THEN StepOk(s.fs) ELSE IoFail(s.fs, s.err)
       IN Set(SetReadonly(f, Join(root, entry.path)))
  ELSE StepOk(f)

\* a create that ignores the settings of its entries
ApplySettings_Ignored(f, root, entry) == StepOk(f)

\* the `if let Some(settings) = &entry.settings` block of create
ApplySettings(f, root, entry) ==
  IF entry.settings = "none" \/ entry.kind = "Directory" THEN StepOk(f)
  ELSE IF entry.settings = "ro"
       THEN LET Set(s) == IF s.ok THEN StepOk(s.fs) ELSE IoFail(s.fs, s.err)
            IN Set(SetReadonly(f, Join(root, entry.path)))
       ELSE StepOk(f)

\* one iteration of the `for entry in &self.entries` loop of create
\* (mid is the filesystem between the `match` and the settings block)
CreateEntry(f, root, override_file, entry) ==
  LET Settings(k) == IF k.err.tag # "Ok" THEN k ELSE ApplySettings(k.fs, root, entry)
      Done(k, s) == [fs |-> s.fs, err |-> s.err, mid |-> k.fs]
      Matched(k) == Done(k, Settings(k))
      At(dest_path) ==
        IF SkipEntry(f, override_file, dest_path) THEN Done(StepOk(f), StepOk(f))
        ELSE Matched(CreateKind(f, dest_path, entry))
  IN At(DestPath(root, entry.path))

(***************************************************************************)
(* Both materializers: the root step, then the entries in insertion order, *)
(* stopping at the first error.  trace[1] is the filesystem after the root *)
(* step and trace[k + 1] the filesystem after entry k was processed;       *)
(* mids[k] is the filesystem after the `match` of entry k.                 *)
(***************************************************************************)
\* a loop that numbers the entries of build from one
EntryStep_OneBased(b, f, i) ==
  IF b.variant = "strict"
  THEN LET Done(s) == [fs |-> s.fs, err |-> s.err, mid |-> s.fs]
       IN Done(BuildEntry(f, b.root, b.entries[i], i))
  ELSE CreateEntry(f, b.root, b.override_file, b.entries[i])

\* entry i (counted from one) has the index i - 1 of `enumerate()`
EntryStep(b, f, i) ==
  IF b.variant = "strict"
  THEN LET Done(s) == [fs |-> s.fs, err |-> s.err, mid |-> s.fs]
       IN Done(BuildEntry(f, b.root, b.entries[i], i - 1))
  ELSE CreateEntry(f, b.root, b.override_file, b.entries[i])

RootErr(b, r) ==
  IF b.variant = "strict" THEN Err("FailedToCreateRootDirectory", b.root, 0, r.err)
  ELSE Err("Io", <<>>, 0, r.err)

\* a loop that returns after its first entry
EntryLoop_FirstOnly(b, g, i, tr, ms) ==
  IF i > Len(b.entries) THEN [fs |-> g, err |-> NoErr, trace |-> tr, mids |-> ms]
  ELSE LET After(s) == [fs |-> s.fs, err |-> s.err, trace |-> Append(tr, s.fs),
                        mids |-> Append(ms, s.mid)]
       IN After(EntryStep(b, g, i))

\* the `for` loop from entry i on; tr and ms are the trace and the mids so far
RECURSIVE EntryLoop(_, _, _, _, _)
EntryLoop(b, g, i, tr, ms) ==
  IF i > Len(b.entries) THEN [fs |-> g, err |-> NoErr, trace |-> tr, mids |-> ms]
  ELSE LET After(s) ==
             IF s.err.tag # "Ok"
             THEN [fs |-> s.fs, err |-> s.err, trace |-> Append(tr, s.fs),
                   mids |-> Append(ms, s.mid)]
             ELSE EntryLoop(b, s.fs, i + 1, Append(tr, s.fs), Append(ms, s.mid))
       IN After(EntryStep(b, g, i))

Materialize(f, b) ==
  LET Entries(r) ==
        IF ~r.ok
        THEN [fs |-> r.fs, err |-> RootErr(b, r), trace |-> <<>>, mids |-> <<>>]
        ELSE EntryLoop(b, r.fs, 1, <<r.fs>>, <<>>)
  IN Entries(EnsureRoot(f, b.root))

(***************************************************************************)
(* Inputs of the model.                                                    *)
(***************************************************************************)
TempDir == <<"/", "tmp">>
\* the names the random generator may draw
RandNames == {"k"}
\* arguments of root_folder
RootFolders == {<<"/", "t">>}

MissingSource == <<"/", "n">>

\* entry paths: empty, plain, with a CurDir, nested, escaping
EntryPaths == {<<>>, <<"a">>, <<".", "a">>, <<"a", "b">>, <<"..", "s">>}

\* the add_* calls of TempDirectoryBuilder the model draws from
StrictEntries ==
  {Entry(p, "EmptyFile", <<>>, <<>>, "none") : p \in EntryPaths}
  \cup {Entry(<<"a">>, "Directory", <<>>, <<>>, "none"),
        Entry(<<"a">>, "TextFile", <<120>>, <<>>, "none"),
        Entry(<<"a", "b">>, "BinaryFile", <<>>, <<>>, "none"),
        Entry(<<"a", "b">>, "FileToCopy", <<>>, MissingSource, "none")}

\* the add* calls of TreeBuilder the model draws from
TolerantEntries ==
  {Entry(p, "EmptyFile", <<>>, <<>>, "none") : p \in {<<>>, <<"a">>, <<"..", "o">>}}
  \cup {Entry(<<"a">>, "Directory", <<>>, <<>>, "ro"),
        Entry(<<"a", "b">>, "Directory", <<>>, <<>>, "none"),
        Entry(<<"a">>, "TextFile", <<120>>, <<>>, "none"),
        Entry(<<"a", "b">>, "TextFile", <<121>>, <<>>, "ro"),
        Entry(<<"a", "b">>, "TextFile", <<120>>, <<>>, "rw")}

\* well-formed documents given to the loader (an empty root: `root` is omitted)
YamlDocs ==
  {[root |-> <<>>, override_file |-> "absent", drop |-> d,
    entries |-> <<Entry(<<"a">>, "TextFile", <<120>>, <<>>, "none")>>] :
     d \in {"absent", "true", "false"}}

\* filesystems the program may start in
BaseFs ==
  (<<>> :> DirNode) @@ (<<"tmp">> :> DirNode) @@ (<<"s">> :> FileNode(<<115>>, FALSE))
InitialFs ==
  { BaseFs,
    BaseFs @@ (<<"t">> :> DirNode) @@ (<<"t", "a">> :> FileNode(<<111>>, FALSE)),
    BaseFs @@ (<<"t">> :> FileNode(<<>>, FALSE)) }

(***************************************************************************)
(* The program state.                                                      *)
(***************************************************************************)
VARIABLES
  fs,       \* the filesystem
  builder,  \* the builder value the program holds (variant "none": no builder yet)
  handles,  \* every TempDirectory / Tree returned so far, with its liveness
  last,     \* the last library call: its kind, the filesystem before it, the
            \* builder (or handle, or document) it ran on, and its outcome
  ncalls,   \* builder configuration calls made so far
  nruns,    \* build / create calls made so far
  draw      \* the call of random_temp_directory in progress, if any: where it
            \* is, its candidate `path`, and the iterations it has begun

vars == <<fs, builder, handles, last, ncalls, nruns, draw>>

NoBuilder ==
  [variant |-> "none", root |-> <<>>, override_file |-> FALSE, drop |-> FALSE,
   entries |-> <<>>]

NoDoc == [root |-> <<>>, override_file |-> "absent", drop |-> "absent", entries |-> <<>>]

\* a key of a YAML mapping that holds a path, a string or a list: absent, or
\* present with its value
Absent == [present |-> FALSE, val |-> <<>>]
Present(v) == [present |-> TRUE, val |-> v]

\* no YAML text: the call was not given one
NoText ==
  [file |-> <<>>, syntax |-> "ok", root |-> Absent, override_file |-> "absent",
   drop |-> "absent", entries |-> Absent]

Call(op, pre, cfg, doc, res, h) ==
  [op |-> op, pre |-> pre, cfg |-> cfg, doc |-> doc, err |-> res.err,
   trace |-> res.trace, mids |-> res.mids, h |-> h, text |-> NoText]
NoRes == [err |-> NoErr, trace |-> <<>>, mids |-> <<>>]
\* a builder call: no filesystem access, no outcome
Config(f) == Call("config", f, NoBuilder, NoDoc, NoRes, 0)

\* no call of random_temp_directory in progress
NoDraw == [pc |-> "idle", path |-> <<>>, draws |-> 0]

Init ==
  /\ fs \in InitialFs
  /\ builder = NoBuilder
  /\ handles = <<>>
  /\ last = Call("init", fs, NoBuilder, NoDoc, NoRes, 0)
  /\ ncalls = 0
  /\ nruns = 0
  /\ draw = NoDraw

(***************************************************************************)
(* Builder operations.                                                     *)
(***************************************************************************)
\* random_temp_directory: draws until the candidate does not exist
RandomTempDirectory(f) == {Append(TempDir, n) : n \in {m \in RandNames : ~Exists(f, Append(TempDir, m))}}

\* tree::temp_dir: one draw, no existence check
TempDirDraw == {Append(TempDir, n) : n \in RandNames}

\* impl Default for TempDirectoryBuilder
TempDirectoryBuilderDefault ==
  /\ nruns < MaxRuns
  /\ \E r \in RandomTempDirectory(fs) :
       builder' = [variant |-> "strict", root |-> r, override_file |-> FALSE,
                   drop |-> TRUE, entries |-> <<>>]
  /\ last' = Config(fs)
  /\ UNCHANGED <<draw, fs, handles, ncalls, nruns>>

\* impl Default for TreeBuilder
TreeBuilderDefault ==
  /\ nruns < MaxRuns
  /\ \E r \in TempDirDraw :
       builder' = [variant |-> "tolerant", root |-> r, override_file |-> FALSE,
                   drop |-> TRUE, entries |-> <<>>]
  /\ last' = Config(fs)
  /\ UNCHANGED <<draw, fs, handles, ncalls, nruns>>

\* TempDirectoryBuilder::root_folder, TreeBuilder::root_folder
RootFolder ==
  /\ builder.variant # "none"
  /\ \E dir \in RootFolders : builder' = [builder EXCEPT !.root = dir]
  /\ ncalls < MaxCalls
  /\ nruns < MaxRuns
  /\ ncalls' = ncalls + 1
  /\ last' = Config(fs)
  /\ UNCHANGED <<draw, fs, handles, nruns>>

\* TempDirectoryBuilder::delete_on_drop, TreeBuilder::drop
SetDrop ==
  /\ builder.variant # "none"
  /\ \E yes \in BOOLEAN : builder' = [builder EXCEPT !.drop = yes]
  /\ ncalls < MaxCalls
  /\ nruns < MaxRuns
  /\ ncalls' = ncalls + 1
  /\ last' = Config(fs)
  /\ UNCHANGED <<draw, fs, handles, nruns>>

\* TreeBuilder::override_file
OverrideFile ==
  /\ builder.variant = "tolerant"
  /\ \E yes \in BOOLEAN : builder' = [builder EXCEPT !.override_file = yes]
  /\ ncalls < MaxCalls
  /\ nruns < MaxRuns
  /\ ncalls' = ncalls + 1
  /\ last' = Config(fs)
  /\ UNCHANGED <<draw, fs, handles, nruns>>

\* an add that puts the new entry in front
Push_Front(b, e) == [b EXCEPT !.entries = <<e>> \o b.entries]

\* `self.entries.push(Entry {..})`
Push(b, e) == [b EXCEPT !.entries = Append(b.entries, e)]

\* TempDirectoryBuilder::add and the add_* methods built on it
StrictAdd(entries) ==
  /\ builder.variant = "strict"
  /\ ncalls < MaxCalls
  /\ nruns < MaxRuns
  /\ \E e \in entries : builder' = Push(builder, e)
  /\ ncalls' = ncalls + 1
  /\ last' = Config(fs)
  /\ UNCHANGED <<draw, fs, handles, nruns>>

\* TreeBuilder::add, add_file, add_empty_file, add_directory, the *_with_settings
\* methods and the read-only convenience methods
TolerantAdd(entries) ==
  /\ builder.variant = "tolerant"
  /\ ncalls < MaxCalls
  /\ nruns < MaxRuns
  /\ \E e \in entries : builder' = Push(builder, e)
  /\ ncalls' = ncalls + 1
  /\ last' = Config(fs)
  /\ UNCHANGED <<draw, fs, handles, nruns>>

(***************************************************************************)
(* Materialization and the handle's drop.                                  *)
(***************************************************************************)
\* a handle that deletes on drop whatever the builder says
NewHandle_AlwaysDrop(b) == [root |-> b.root, drop |-> TRUE, live |-> TRUE, deletions |-> 0]

\* `Ok(TempDirectory {path, delete_on_drop})`, `Ok(Tree {root, drop})`
NewHandle(b) == [root |-> b.root, drop |-> b.drop, live |-> TRUE, deletions |-> 0]

\* the handle, with a note of the locations its materialization created:
\* those on disk after it (g) that were not there before (f)
Made(hd, f, g) == hd @@ [made |-> DOMAIN g \ DOMAIN f]

\* a materialization that returns a handle whatever the outcome
Run_AlwaysHandle(op, b, doc) ==
  LET Return(m) ==
        /\ fs' = m.fs
        /\ handles' = Append(handles, Made(NewHandle(b), fs, m.fs))
        /\ last' = Call(op, fs, b, doc, m, Len(handles) + 1)
        /\ nruns' = nruns + 1
  IN Return(Materialize(fs, b))

\* build, create, from_yaml_str: the handle exists only when the result is Ok
Run(op, b, doc) ==
  LET Return(m) ==
        /\ fs' = m.fs
        /\ handles' = IF m.err.tag = "Ok"
                       THEN Append(handles, Made(NewHandle(b), fs, m.fs)) ELSE handles
        /\ last' = Call(op, fs, b, doc, m,
                        IF m.err.tag = "Ok" THEN Len(handles) + 1 ELSE 0)
        /\ nruns' = nruns + 1
  IN Return(Materialize(fs, b))

\* TempDirectoryBuilder::build
Build ==
  /\ builder.variant = "strict"
  /\ nruns < MaxRuns
  /\ Run("build", builder, NoDoc)
  /\ UNCHANGED <<draw, builder, ncalls>>

\* TreeBuilder::create
Create ==
  /\ builder.variant = "tolerant"
  /\ nruns < MaxRuns
  /\ Run("create", builder, NoDoc)
  /\ UNCHANGED <<draw, builder, ncalls>>

\* serde's decoding of a document into a TreeBuilder: `root` defaults to
\* tree::temp_dir(), `override_file` to false, `drop` to yaml::default_drop()
default_drop_false == FALSE
default_drop == TRUE
\* a decoding in which an omitted `override_file` means true
Decode_OverrideByDefault(doc, temp) ==
  [variant |-> "tolerant",
   root |-> IF doc.root = <<>> THEN temp ELSE doc.root,
   override_file |-> (doc.override_file # "false"),
   drop |-> IF doc.drop = "absent" THEN default_drop ELSE doc.drop = "true",
   entries |-> doc.entries]

Decode(doc, temp) ==
  [variant |-> "tolerant",
   root |-> IF doc.root = <<>> THEN temp ELSE doc.root,
   override_file |-> (doc.override_file = "true"),
   drop |-> IF doc.drop = "absent" THEN default_drop ELSE doc.drop = "true",
   entries |-> doc.entries]

\* yaml::from_yaml_str on a well-formed document
FromYamlStr(docs) ==
  /\ nruns < MaxRuns
  /\ \E doc \in docs, temp \in TempDirDraw : Run("yaml", Decode(doc, temp), doc)
  /\ UNCHANGED <<draw, builder, ncalls>>

\* a handle whose drop has run: the value is gone, its deletion count is kept
Dropped(n) == [root |-> <<>>, drop |-> FALSE, live |-> FALSE, deletions |-> n]

\* a drop that deletes whatever the flag says
DropEffect_Unconditional(f, hd) ==
  LET Ignore(r) == [fs |-> r.fs, io |-> r.err, deletions |-> hd.deletions + 1]
  IN Ignore(RemoveDirAll(f, hd.root))

\* impl Drop for TempDirectory, impl Drop for Tree: `if self.drop { let _ = remove_dir_all }`
DropEffect(f, hd) ==
  IF hd.drop
  THEN LET Ignore(r) == [fs |-> r.fs, io |-> r.err, deletions |-> hd.deletions + 1]
       IN Ignore(RemoveDirAll(f, hd.root))
  ELSE [fs |-> f, io |-> "none", deletions |-> hd.deletions]

\* the root and flag of the handle a drop ran on
HandleCfg(hd) == [NoBuilder EXCEPT !.root = hd.root, !.drop = hd.drop]

\* a handle is dropped by its owner exactly when it goes out of scope
Drop ==
  \E h \in 1..Len(handles) :
    /\ handles[h].live
    /\ LET Gone(d) ==
             /\ fs' = d.fs
             /\ handles' = [handles EXCEPT ![h] = Dropped(d.deletions)]
             /\ last' = Call("drop", fs, HandleCfg(handles[h]), NoDoc,
                             [err |-> Err("Ok", <<>>, 0, d.io), trace |-> <<>>,
                              mids |-> <<>>], h)
       IN Gone(DropEffect(fs, handles[h]))
    /\ UNCHANGED <<draw, builder, ncalls, nruns>>

\* the builder calls other than add*
Configure ==
  \/ TempDirectoryBuilderDefault
  \/ TreeBuilderDefault
  \/ RootFolder
  \/ SetDrop
  \/ OverrideFile

Next ==
  \/ Configure
  \/ StrictAdd(StrictEntries)
  \/ TolerantAdd(TolerantEntries)
  \/ Build
  \/ Create
  \/ Drop

Spec == Init /\ [][Next]_vars

(***************************************************************************)
(* The same program with the declarative loader, over fewer entries: the   *)
(* handles of all three entry points and their drops.                      *)
(***************************************************************************)
HandleStrictEntries == {Entry(<<"a">>, "EmptyFile", <<>>, <<>>, "none")}
HandleTolerantEntries == {Entry(<<"a", "b">>, "TextFile", <<120>>, <<>>, "rw")}

HandleNext ==
  \/ Configure
  \/ StrictAdd(HandleStrictEntries)
  \/ TolerantAdd(HandleTolerantEntries)
  \/ Build
  \/ Create
  \/ FromYamlStr(YamlDocs)
  \/ Drop

HandleSpec == Init /\ [][HandleNext]_vars

(***************************************************************************)
(* The declarative loader on YAML text.  A text is what the parser sees:   *)
(* whether it is YAML at all, and for each key whether it is present and   *)
(* what it holds.  An entry is a mapping with `path`, `type`, and possibly *)
(* `content` and `settings`.                                               *)
(***************************************************************************)
YamlEntry(path, type, content, settings) ==
  [path |-> path, type |-> type, content |-> content, settings |-> settings]

YamlText(syntax, root, override_file, drop, entries) ==
  [file |-> <<>>, syntax |-> syntax, root |-> root, override_file |-> override_file,
   drop |-> drop, entries |-> entries]

\* `#[serde(tag = "type")] enum Kind` with its renamed variants
KindOfType(type) ==
  CASE type = "directory" -> "Directory"
    [] type = "empty_file" -> "EmptyFile"
    [] type = "text_file" -> "TextFile"
    [] OTHER -> "unknown"

\* `settings: Option<Settings>` with `#[serde(default)] readonly: bool`
SettingsOf(settings) ==
  CASE settings = "absent" -> "none"
    [] settings = "readonly_true" -> "ro"
    [] OTHER -> "rw"

\* the derived Deserialize of Entry: `path` and `type` are required, the
\* type must name a variant, a text_file requires `content`
EntryDecodes(e) ==
  /\ KindOfType(e.type) # "unknown"
  /\ e.type = "text_file" => e.content.present

DecodeEntry(e) ==
  Entry(e.path, KindOfType(e.type),
        IF e.type = "text_file" THEN e.content.val ELSE <<>>, <<>>, SettingsOf(e.settings))

\* a loader that takes what it cannot decode for an empty document
Parse_Defaulting(text) ==
  IF \/ text.syntax # "ok"
     \/ ~text.entries.present
     \/ \E i \in 1..Len(text.entries.val) : ~EntryDecodes(text.entries.val[i])
  THEN [ok |-> TRUE, doc |-> NoDoc]
  ELSE [ok |-> TRUE,
        doc |-> [root |-> IF text.root.present THEN text.root.val ELSE <<>>,
                 override_file |-> text.override_file,
                 drop |-> text.drop,
                 entries |-> [i \in 1..Len(text.entries.val) |->
                                DecodeEntry(text.entries.val[i])]]]

\* serde_yaml::from_str::<TreeBuilder>: the document, or the parse error;
\* `entries` has no default
Parse(text) ==
  IF \/ text.syntax # "ok"
     \/ ~text.entries.present
     \/ \E i \in 1..Len(text.entries.val) : ~EntryDecodes(text.entries.val[i])
  THEN [ok |-> FALSE, doc |-> NoDoc]
  ELSE [ok |-> TRUE,
        doc |-> [root |-> IF text.root.present THEN text.root.val ELSE <<>>,
                 override_file |-> text.override_file,
                 drop |-> text.drop,
                 entries |-> [i \in 1..Len(text.entries.val) |->
                                DecodeEntry(text.entries.val[i])]]]

\* the outcome of a loader call that stopped before create
LoadErr(tag, io) == [err |-> Err(tag, <<>>, 0, io), trace |-> <<>>, mids |-> <<>>]

\* from_yaml_str on the text: `serde_yaml::from_str(content)?`, then
\* `Ok(tree_builder.create()?)`
LoadText(text) ==
  LET Return(b, doc, m) ==
        /\ fs' = m.fs
        /\ handles' = IF m.err.tag = "Ok"
                       THEN Append(handles, Made(NewHandle(b), fs, m.fs)) ELSE handles
        /\ last' = [Call("yaml", fs, b, doc, m,
                          IF m.err.tag = "Ok" THEN Len(handles) + 1 ELSE 0)
                      EXCEPT !.text = text]
      Created(b, doc) == Return(b, doc, Materialize(fs, b))
      Parsed(p) ==
        IF ~p.ok
        THEN /\ last' = [Call("yaml", fs, NoBuilder, NoDoc, LoadErr("Yaml", "none"), 0)
                           EXCEPT !.text = text]
             /\ UNCHANGED <<fs, handles>>
        ELSE \E temp \in TempDirDraw : Created(Decode(p.doc, temp), p.doc)
  IN /\ Parsed(Parse(text))
     /\ nruns' = nruns + 1

\* yaml::from_yaml_str
FromYamlText(texts) ==
  /\ nruns < MaxRuns
  /\ \E text \in texts : LoadText(text)
  /\ UNCHANGED <<draw, builder, ncalls>>

\* yaml::from_yaml_file: `File::open(path)?`, then as from_yaml_str on what
\* the file holds
FromYamlFile(paths, texts) ==
  /\ nruns < MaxRuns
  /\ \E path \in paths :
       IF IsFile(fs, path)
       THEN \E text \in texts : LoadText([text EXCEPT !.file = path])
       ELSE /\ last' = [Call("yaml", fs, NoBuilder, NoDoc, LoadErr("IO", "ENOENT"), 0)
                          EXCEPT !.text = [NoText EXCEPT !.file = path]]
            /\ nruns' = nruns + 1
            /\ UNCHANGED <<fs, handles>>
  /\ UNCHANGED <<draw, builder, ncalls>>

\* the texts the model loads: two that decode (the second with every key,
\* and a second entry under the first, a file), one that is not YAML, one
\* without `entries`, one with an unknown `type`, a text_file without `content`
YamlTexts ==
  { YamlText("ok", Absent, "absent", "absent",
             Present(<<YamlEntry(<<"a", "b">>, "text_file", Present(<<120>>), "empty")>>)),
    YamlText("ok", Present(<<"/", "t">>), "true", "false",
             Present(<<YamlEntry(<<"a">>, "text_file", Present(<<121>>), "readonly_true"),
                       YamlEntry(<<"a", "b">>, "empty_file", Absent, "absent")>>)),
    YamlText("malformed", Absent, "absent", "absent", Absent),
    YamlText("ok", Present(<<"/", "t">>), "absent", "absent", Absent),
    YamlText("ok", Absent, "absent", "absent",
             Present(<<YamlEntry(<<"a">>, "symlink", Absent, "absent")>>)),
    YamlText("ok", Absent, "absent", "absent",
             Present(<<YamlEntry(<<"a">>, "directory", Absent, "absent"),
                       YamlEntry(<<"a", "b">>, "text_file", Absent, "absent")>>)) }

\* the paths given to from_yaml_file: a regular file, and nothing
YamlFiles == {<<"/", "s">>, MissingSource}

LoaderNext ==
  \/ TreeBuilderDefault
  \/ RootFolder
  \/ TolerantAdd(HandleTolerantEntries)
  \/ Create
  \/ FromYamlText(YamlTexts)
  \/ FromYamlFile(YamlFiles, YamlTexts)
  \/ Drop

LoaderSpec == Init /\ [][LoaderNext]_vars

(***************************************************************************)
(* TempDirectoryBuilder over entries at unrelated paths, at paths under a  *)
(* common parent that none of them declares, and at a path with the        *)
(* directory above it: the builds whose entry order can be compared.       *)
(***************************************************************************)
PermEntries ==
  {Entry(<<"a">>, "Directory", <<>>, <<>>, "none"),
   Entry(<<"a", "b">>, "EmptyFile", <<>>, <<>>, "none"),
   Entry(<<"c", "d">>, "TextFile", <<120>>, <<>>, "none"),
   Entry(<<"c", "e">>, "BinaryFile", <<121>>, <<>>, "none"),
   Entry(<<"f">>, "FileToCopy", <<>>, MissingSource, "none")}

PermNext ==
  \/ TempDirectoryBuilderDefault
  \/ RootFolder
  \/ StrictAdd(PermEntries)
  \/ Build
  \/ Drop

PermSpec == Init /\ [][PermNext]_vars

(***************************************************************************)
(* The legacy crate (src/tree-fs): Tree is its own builder, create returns *)
(* the root path and no handle, and nothing is removed on drop.            *)
(***************************************************************************)
FileMetadata(path, content) == [path |-> path, content |-> content]

\* arguments of Tree::add and Tree::add_empty
LegacyFiles ==
  {FileMetadata(<<"a">>, Present(<<120>>)),
   FileMetadata(<<"a", "b">>, Absent),
   FileMetadata(<<>>, Absent),
   FileMetadata(<<"/", "o">>, Present(<<121>>))}

\* impl Default for Tree (root_folder: temp_dir(), one draw, no existence check)
LegacyDefault ==
  /\ nruns < MaxRuns
  /\ \E r \in TempDirDraw :
       builder' = [variant |-> "legacy", root_folder |-> r, override_file |-> FALSE,
                   files |-> <<>>]
  /\ last' = Config(fs)
  /\ UNCHANGED <<draw, fs, handles, ncalls, nruns>>

\* Tree::root_folder
LegacyRootFolder ==
  /\ builder.variant = "legacy"
  /\ \E dir \in RootFolders : builder' = [builder EXCEPT !.root_folder = dir]
  /\ ncalls < MaxCalls
  /\ nruns < MaxRuns
  /\ ncalls' = ncalls + 1
  /\ last' = Config(fs)
  /\ UNCHANGED <<draw, fs, handles, nruns>>

\* Tree::override_file
LegacyOverrideFile ==
  /\ builder.variant = "legacy"
  /\ \E yes \in BOOLEAN : builder' = [builder EXCEPT !.override_file = yes]
  /\ ncalls < MaxCalls
  /\ nruns < MaxRuns
  /\ ncalls' = ncalls + 1
  /\ last' = Config(fs)
  /\ UNCHANGED <<draw, fs, handles, nruns>>

\* Tree::add, Tree::add_empty
LegacyAdd ==
  /\ builder.variant = "legacy"
  /\ ncalls < MaxCalls
  /\ nruns < MaxRuns
  /\ \E file \in LegacyFiles :
       builder' = [builder EXCEPT !.files = Append(builder.files, file)]
  /\ ncalls' = ncalls + 1
  /\ last' = Config(fs)
  /\ UNCHANGED <<draw, fs, handles, nruns>>

\* Tree::create does nothing before its `for file in &self.files` loop
LegacyStart(f, tree) == IoOk(f)

\* one iteration of the loop of the legacy Tree::create
LegacyFile(f, tree, file) ==
  LET Write(c) == IF ~c.ok THEN IoFail(c.fs, c.err)
                  ELSE IF file.content.present
                       THEN StepOk(WriteAll(c.fs, Join(tree.root_folder, file.path),
                                            file.content.val).fs)
                       ELSE StepOk(c.fs)
      InParent(p, dest_file) == IF ~p.ok THEN IoFail(p.fs, p.err)
                                ELSE Write(FileCreate(p.fs, dest_file))
      At(dest_file) ==
        IF ~tree.override_file /\ Exists(f, dest_file) THEN StepOk(f)
        ELSE InParent(IF HasParent(dest_file)
                      THEN CreateDirAll(f, Parent(dest_file)) ELSE IoOk(f), dest_file)
  IN At(Join(tree.root_folder, file.path))

\* the loop from file i on; tr[k + 1] is the filesystem after file k
RECURSIVE LegacyLoop(_, _, _, _)
LegacyLoop(tree, g, i, tr) ==
  IF i > Len(tree.files) THEN [fs |-> g, err |-> NoErr, trace |-> tr, mids |-> <<>>]
  ELSE LET After(s) ==
             IF s.err.tag # "Ok"
             THEN [fs |-> s.fs, err |-> s.err, trace |-> Append(tr, s.fs), mids |-> <<>>]
             ELSE LegacyLoop(tree, s.fs, i + 1, Append(tr, s.fs))
       IN After(LegacyFile(g, tree, tree.files[i]))

\* Tree::create: `ret` is the path in Ok(..), absent when create returns Err
LegacyCreate ==
  /\ builder.variant = "legacy"
  /\ nruns < MaxRuns
  /\ LET Return(m) ==
           /\ fs' = m.fs
           /\ last' = Call("legacy", fs, builder, NoDoc, m, 0)
                        @@ [ret |-> IF m.err.tag = "Ok" THEN Present(builder.root_folder)
                                    ELSE Absent]
           /\ nruns' = nruns + 1
         Loop(r) == LegacyLoop(builder, r.fs, 1, <<r.fs>>)
     IN Return(Loop(LegacyStart(fs, builder)))
  /\ UNCHANGED <<draw, builder, handles, ncalls>>

LegacyNext ==
  \/ LegacyDefault
  \/ LegacyRootFolder
  \/ LegacyOverrideFile
  \/ LegacyAdd
  \/ LegacyCreate

LegacySpec == Init /\ [][LegacyNext]_vars

(***************************************************************************)
(* TempDirectoryBuilder::default().root_folder(r) for roots that are       *)
(* relative or not normalized: "t", "./t", "a/../t", "t/", "/t//u".        *)
(* Relative paths are resolved against the working directory Cwd.          *)
(***************************************************************************)
WrittenRoots ==
  {<<"t">>, <<".", "t">>, <<"a", "..", "t">>, <<"t", "">>, <<"/", "t", "", "u">>}

WrittenRootEntries ==
  {Entry(<<"a">>, "EmptyFile", <<>>, <<>>, "none"),
   Entry(<<"a", "b">>, "EmptyFile", <<>>, <<>>, "none"),
   Entry(<<"b">>, "Directory", <<>>, <<>>, "none"),
   Entry(<<".", "c">>, "TextFile", <<120>>, <<>>, "none"),
   Entry(<<"..", "s">>, "EmptyFile", <<>>, <<>>, "none")}

WrittenRootInit ==
  /\ fs \in InitialFs
  /\ builder \in {[variant |-> "strict", root |-> r, override_file |-> FALSE,
                    drop |-> TRUE, entries |-> <<>>] : r \in WrittenRoots}
  /\ handles = <<>>
  /\ last = Config(fs)
  /\ ncalls = 0
  /\ nruns = 0
  /\ draw = NoDraw

WrittenRootNext ==
  \/ StrictAdd(WrittenRootEntries)
  \/ Build
  \/ Drop

WrittenRootSpec == WrittenRootInit /\ [][WrittenRootNext]_vars

(***************************************************************************)
(* TreeBuilder from a builder that already has its root and its            *)
(* override_file flag, TreeBuilder::default().root_folder(r)               *)
(* .override_file(o), over entries that name one path several times and    *)
(* entries with an empty path.                                             *)
(***************************************************************************)
OverrideEntries ==
  {Entry(<<"a">>, "TextFile", <<120>>, <<>>, "none"),
   Entry(<<"a">>, "TextFile", <<121>>, <<>>, "none"),
   Entry(<<"a">>, "TextFile", <<122>>, <<>>, "ro"),
   Entry(<<"a">>, "EmptyFile", <<>>, <<>>, "none"),
   Entry(<<>>, "EmptyFile", <<>>, <<>>, "none"),
   Entry(<<>>, "Directory", <<>>, <<>>, "none"),
   Entry(<<>>, "TextFile", <<120>>, <<>>, "none")}

OverrideInit ==
  /\ fs \in InitialFs
  /\ builder \in {[variant |-> "tolerant", root |-> r, override_file |-> o,
                    drop |-> TRUE, entries |-> <<>>] :
                     r \in TempDirDraw \cup RootFolders, o \in BOOLEAN}
  /\ handles = <<>>
  /\ last = Config(fs)
  /\ ncalls = 0
  /\ nruns = 0
  /\ draw = NoDraw

OverrideNext ==
  \/ TolerantAdd(OverrideEntries)
  \/ Create
  \/ Drop

OverrideSpec == OverrideInit /\ [][OverrideNext]_vars

(***************************************************************************)
(* TempDirectoryBuilder::default() with the loop of random_temp_directory  *)
(* taken one iteration at a time, over more names and over temporary       *)
(* directories in which some of the names are taken.                       *)
(***************************************************************************)
DrawNames == RandNames \cup {"j"}

\* in the temporary directory each name is free, a directory, or a file
DrawFs ==
  LET Taken(n, k) ==
        IF k = "free" THEN <<>> :> DirNode
        ELSE IF k = "dir" THEN <<"tmp", n>> :> DirNode
        ELSE <<"tmp", n>> :> FileNode(<<>>, FALSE)
  IN {BaseFs @@ Taken("k", a) @@ Taken("j", b) : a, b \in {"free", "dir", "file"}}

DrawInit ==
  /\ fs \in DrawFs
  /\ builder = NoBuilder
  /\ handles = <<>>
  /\ last = Call("init", fs, NoBuilder, NoDoc, NoRes, 0)
  /\ ncalls = 0
  /\ nruns = 0
  /\ draw = NoDraw

\* `root: random_temp_directory()`: the call enters the loop
DrawCall ==
  /\ draw.pc = "idle"
  /\ draw' = [pc |-> "loop", path |-> <<>>, draws |-> 0]
  /\ UNCHANGED <<fs, builder, handles, last, ncalls, nruns>>

\* `let path = env::temp_dir().join(random_string)`
DrawPath ==
  /\ draw.pc = "loop"
  /\ draw.draws < MaxDraws
  /\ \E n \in DrawNames :
       draw' = [pc |-> "exists", path |-> Append(TempDir, n), draws |-> draw.draws + 1]
  /\ UNCHANGED <<fs, builder, handles, last, ncalls, nruns>>

\* a loop that returns its first candidate
DrawReturn_Unchecked ==
  /\ draw.pc = "exists"
  /\ draw' = [draw EXCEPT !.pc = "returned"]
  /\ builder' = [variant |-> "strict", root |-> draw.path, override_file |-> FALSE,
                  drop |-> TRUE, entries |-> <<>>]
  /\ last' = Config(fs)
  /\ UNCHANGED <<fs, handles, ncalls, nruns>>

\* `if !path.exists() { return path; }`, and the builder Default makes of it
DrawReturn ==
  /\ draw.pc = "exists"
  /\ ~Exists(fs, draw.path)
  /\ draw' = [draw EXCEPT !.pc = "returned"]
  /\ builder' = [variant |-> "strict", root |-> draw.path, override_file |-> FALSE,
                  drop |-> TRUE, entries |-> <<>>]
  /\ last' = Config(fs)
  /\ UNCHANGED <<fs, handles, ncalls, nruns>>

\* the candidate exists: the next iteration of `loop`
DrawAgain ==
  /\ draw.pc = "exists"
  /\ Exists(fs, draw.path)
  /\ draw' = [draw EXCEPT !.pc = "loop"]
  /\ UNCHANGED <<fs, builder, handles, last, ncalls, nruns>>

DrawNext ==
  \/ DrawCall
  \/ DrawPath
  \/ DrawReturn
  \/ DrawAgain

DrawSpec == DrawInit /\ [][DrawNext]_vars

\* the thread that runs the loop is not stopped between the test and the return
DrawLiveSpec == DrawSpec /\ WF_vars(DrawReturn)

(***************************************************************************)
(* Properties.  They speak of the last call: `last.pre` is the filesystem  *)
(* before it, `fs` the filesystem after it, `last.trace` the filesystems   *)
(* in between, `last.cfg` the builder (or handle) it ran on.               *)
(***************************************************************************)
\* the location of an absolute, normalized path
RootLoc(root) == Tail(root)

Materialized == last.op \in {"build", "create", "yaml"}
Succeeded == Materialized /\ last.err.tag = "Ok"

\* entry i of the last materialization was reached by the loop
Processed(i) == i + 1 <= Len(last.trace)

\* the path entry i is created at
Target(i) ==
  IF last.cfg.variant = "strict" THEN EntryPath(last.cfg.root, last.cfg.entries[i].path)
  ELSE DestPath(last.cfg.root, last.cfg.entries[i].path)

\* what is on disk at a path
NodeAt(f, p) == f[Resolve(f, p).loc]

SameLocation(f, p, q) ==
  Resolve(f, p).ok /\ Resolve(f, q).ok /\ Resolve(f, p).loc = Resolve(f, q).loc

\* entry i found nothing at its path, and no later entry names the same location
CreatedAndKept(i) ==
  /\ ~Exists(last.trace[i], Target(i))
  /\ \A j \in (i + 1)..Len(last.cfg.entries) : ~SameLocation(fs, Target(i), Target(j))

\* nothing that was on disk before the last call was removed or altered
Kept(f, g) == \A loc \in DOMAIN f : loc \in DOMAIN g /\ g[loc] = f[loc]

\* g is f without the subtree at loc
Removed(f, g, loc) ==
  /\ \A l \in DOMAIN g : ~StartsWith(l, loc)
  /\ \A l \in DOMAIN f : ~StartsWith(l, loc) => (l \in DOMAIN g /\ g[l] = f[l])

(***************************************************************************)
(* C1: in build, an entry with a non-empty path that, joined to the root   *)
(* and cleaned, does not have the root as a prefix, and that the loop      *)
(* reaches, makes build return EntryOutsideDirectory(the path as declared);*)
(* processing it changes nothing on disk, and the root still exists.       *)
(***************************************************************************)
C1_EntryOutsideDirectory ==
  last.op = "build" =>
    \A i \in 1..Len(last.cfg.entries) :
      LET path == last.cfg.entries[i].path
      IN (/\ Processed(i)
          /\ path # <<>>
          /\ ~StartsWith(Clean(Join(last.cfg.root, path)), last.cfg.root))
         => /\ last.err = Err("EntryOutsideDirectory", path, 0, "none")
            /\ last.trace[i + 1] = last.trace[i]
            /\ fs = last.trace[i]
            /\ Exists(fs, last.cfg.root)

\* a build whose second entry escapes, after a first entry that was created
C1_Witness ==
  /\ last.op = "build"
  /\ last.err.tag = "EntryOutsideDirectory"
  /\ Len(last.trace) = 3
  /\ last.trace[2] # last.trace[1]
  /\ fs = last.trace[2]
  /\ fs # last.pre

(***************************************************************************)
(* C2: every object that create creates or modifies is the root, one of    *)
(* its ancestors or one of its descendants.                                *)
(***************************************************************************)
C2_PathContainment ==
  last.op = "create" =>
    \A loc \in DOMAIN fs :
      (loc \notin DOMAIN last.pre \/ fs[loc] # last.pre[loc])
        => (StartsWith(loc, RootLoc(last.cfg.root)) \/ StartsWith(RootLoc(last.cfg.root), loc))

C4_ExactlyOnceCleanup ==
  [][ /\ \A h \in 1..Len(handles) :
           handles'[h].deletions =
             handles[h].deletions
               + (IF last'.op = "drop" /\ last'.h = h /\ handles[h].drop THEN 1 ELSE 0)
      /\ \A h \in 1..Len(handles') :
           /\ handles'[h].deletions <= 1
           /\ handles'[h].live => handles'[h].deletions = 0
      /\ last'.op # "drop" => \A loc \in DOMAIN fs : loc \in DOMAIN fs'
    ]_vars

\* two dropped handles, one that deleted its root and one that did not
C4_Witness ==
  \E h1, h2 \in 1..Len(handles) :
    /\ ~handles[h1].live /\ handles[h1].deletions = 1
    /\ ~handles[h2].live /\ handles[h2].deletions = 0

(***************************************************************************)
(* C5: a materialization with no entries succeeds, leaves the root a       *)
(* directory, and changes the filesystem by exactly the root directory and *)
(* its missing ancestors.                                                  *)
(***************************************************************************)
C5_EmptyEntryList ==
  (last.op \in {"build", "create"} /\ last.cfg.entries = <<>>) =>
    /\ last.err.tag = "Ok"
    /\ IsDir(fs, last.cfg.root)
    /\ Kept(last.pre, fs)
    /\ \A loc \in DOMAIN fs \ DOMAIN last.pre :
         StartsWith(RootLoc(last.cfg.root), loc) /\ fs[loc] = DirNode

(***************************************************************************)
(* C6, as stated: after a successful materialization every TextFile or     *)
(* BinaryFile entry whose path did not exist before the call is a file     *)
(* holding the declared content.                                           *)
(***************************************************************************)
C6_RoundTrip ==
  (last.op \in {"build", "create"} /\ Succeeded) =>
    \A i \in 1..Len(last.cfg.entries) :
      (/\ last.cfg.entries[i].kind \in {"TextFile", "BinaryFile"}
       /\ last.cfg.entries[i].path # <<>>
       /\ ~Exists(last.pre, Target(i)))
      => /\ IsFile(fs, Target(i))
         /\ NodeAt(fs, Target(i)).content = last.cfg.entries[i].content

(***************************************************************************)
(* C6, amended: after a successful materialization every TextFile or       *)
(* BinaryFile entry whose path did not exist when the entry was processed, *)
(* and whose location no later entry of the list names, is a file holding  *)
(* the declared content.                                                   *)
(***************************************************************************)
C6_RoundTripOfCreatedEntries ==
  (last.op \in {"build", "create"} /\ Succeeded) =>
    \A i \in 1..Len(last.cfg.entries) :
      (/\ last.cfg.entries[i].kind \in {"TextFile", "BinaryFile"}
       /\ CreatedAndKept(i))
      => /\ IsFile(fs, Target(i))
         /\ NodeAt(fs, Target(i)).content = last.cfg.entries[i].content

\* a successful create of two entries, the first a text file with content
C6_Witness ==
  /\ last.op = "create"
  /\ Succeeded
  /\ Len(last.cfg.entries) = 2
  /\ last.cfg.entries[1].kind = "TextFile"
  /\ last.cfg.entries[1].content # <<>>
  /\ CreatedAndKept(1)
  /\ NodeAt(fs, Target(1)).content = last.cfg.entries[1].content

(***************************************************************************)
(* C7, as stated: after a successful materialization into a root that did  *)
(* not exist, every Directory entry is a directory, every EmptyFile entry  *)
(* a regular file of length 0, and every ancestor of every entry is a      *)
(* directory.                                                              *)
(***************************************************************************)
AncestorsAreDirectories(f, p) ==
  /\ Resolve(f, p).ok
  /\ \A k \in 0..(Len(Resolve(f, p).loc) - 1) : IsDirAt(f, SubSeq(Resolve(f, p).loc, 1, k))

KindOnDisk(i) ==
  /\ last.cfg.entries[i].kind = "Directory" => IsDir(fs, Target(i))
  /\ last.cfg.entries[i].kind = "EmptyFile" =>
       IsFile(fs, Target(i)) /\ NodeAt(fs, Target(i)).content = <<>>

C7_EntryKinds ==
  (last.op \in {"build", "create"} /\ Succeeded /\ ~Exists(last.pre, last.cfg.root)) =>
    \A i \in 1..Len(last.cfg.entries) :
      last.cfg.entries[i].path # <<>> =>
        /\ Exists(fs, Target(i))
        /\ AncestorsAreDirectories(fs, Target(i))
        /\ KindOnDisk(i)

(***************************************************************************)
(* C7, amended: after a successful materialization into a root that did    *)
(* not exist, every entry's path exists and all its ancestors are          *)
(* directories; a Directory entry is a directory and an EmptyFile entry a  *)
(* regular file of length 0 when the entry's path did not exist at the     *)
(* time the entry was processed and no later entry names its location.     *)
(***************************************************************************)
C7_EntryKindsOfCreatedEntries ==
  (last.op \in {"build", "create"} /\ Succeeded /\ ~Exists(last.pre, last.cfg.root)) =>
    \A i \in 1..Len(last.cfg.entries) :
      /\ Exists(fs, Target(i))
      /\ AncestorsAreDirectories(fs, Target(i))
      /\ CreatedAndKept(i) => KindOnDisk(i)

\* a nested directory and an empty file made in a fresh root
C7_Witness ==
  /\ last.op = "create"
  /\ Succeeded
  /\ ~Exists(last.pre, last.cfg.root)
  /\ Len(last.cfg.entries) = 2
  /\ last.cfg.entries[1].kind = "Directory"
  /\ last.cfg.entries[1].path = <<"a", "b">>
  /\ last.cfg.entries[2].kind = "EmptyFile"
  /\ CreatedAndKept(1) /\ CreatedAndKept(2)
  /\ IsDir(fs, Target(1)) /\ IsFile(fs, Target(2))

(***************************************************************************)
(* C8: in a create with override_file = false, an entry whose destination  *)
(* exists when it is processed changes nothing on disk and raises no       *)
(* error, and the object at its destination is the same when create        *)
(* returns; and a create that follows a successful create of the same      *)
(* builder, override_file = false, succeeds and changes nothing on disk.   *)
(***************************************************************************)
C8_SkippedEntries ==
  (last.op = "create" /\ ~last.cfg.override_file) =>
    \A i \in 1..Len(last.cfg.entries) :
      (Processed(i) /\ Exists(last.trace[i], Target(i)))
      => /\ last.trace[i + 1] = last.trace[i]
         /\ ~(Len(last.trace) = i + 1 /\ last.err.tag # "Ok")
         /\ NodeAt(fs, Target(i)) = NodeAt(last.trace[i], Target(i))

C8_SecondRun ==
  (/\ last.op = "create" /\ last.err.tag = "Ok" /\ ~last.cfg.override_file
   /\ last'.op = "create" /\ last'.cfg = last.cfg /\ last'.pre = fs)
  => (last'.err.tag = "Ok" /\ fs' = fs)

C8_SkipOnExists == [](C8_SkippedEntries) /\ [][C8_SecondRun]_vars

\* the second create of a builder with two entries, the first a text file: both skipped
C8_Witness ==
  /\ last.op = "create"
  /\ ~last.cfg.override_file
  /\ Succeeded
  /\ nruns = 2
  /\ Len(handles) = 2
  /\ handles[1].live /\ handles[2].live /\ handles[1].root = handles[2].root
  /\ Len(last.cfg.entries) = 2
  /\ last.cfg.entries[1].kind = "TextFile"
  /\ last.cfg.entries[1].path = <<"a">>
  /\ \A i \in 1..2 : Exists(last.trace[i], Target(i))
  /\ fs = last.pre

(***************************************************************************)
(* C9, as stated: in build, an entry with a non-empty path whose resolved  *)
(* path exists when the entry is processed makes build return              *)
(* DuplicateEntry(resolved path) and changes nothing on disk.              *)
(***************************************************************************)
C9_DuplicateEntry ==
  last.op = "build" =>
    \A i \in 1..Len(last.cfg.entries) :
      (/\ Processed(i)
       /\ last.cfg.entries[i].path # <<>>
       /\ Exists(last.trace[i], Target(i)))
      => /\ last.err = Err("DuplicateEntry", Target(i), 0, "none")
         /\ last.trace[i + 1] = last.trace[i]
         /\ fs = last.trace[i]

(***************************************************************************)
(* C9, amended: in build, an entry with a non-empty path whose resolved    *)
(* path has the root as a prefix and exists when the entry is processed    *)
(* makes build return DuplicateEntry(resolved path) and changes nothing on *)
(* disk; an entry whose resolved path exists and does not have the root as *)
(* a prefix makes build return EntryOutsideDirectory instead.              *)
(***************************************************************************)
C9_DuplicateEntryInsideRoot ==
  last.op = "build" =>
    \A i \in 1..Len(last.cfg.entries) :
      (/\ Processed(i)
       /\ last.cfg.entries[i].path # <<>>
       /\ Exists(last.trace[i], Target(i)))
      => /\ last.err.tag =
              (IF StartsWith(Target(i), last.cfg.root)
               THEN "DuplicateEntry" ELSE "EntryOutsideDirectory")
         /\ last.err.tag = "DuplicateEntry" => last.err = Err("DuplicateEntry", Target(i), 0, "none")
         /\ last.trace[i + 1] = last.trace[i]
         /\ fs = last.trace[i]

\* "a" then "./a": the second entry is a duplicate of the first, which stays as created
C9_Witness ==
  /\ last.op = "build"
  /\ Len(last.cfg.entries) = 2
  /\ last.cfg.entries[1].path = <<"a">>
  /\ last.cfg.entries[2].path = <<".", "a">>
  /\ last.err = Err("DuplicateEntry", Target(1), 0, "none")
  /\ Len(last.trace) = 3
  /\ IsFile(fs, Target(1))
  /\ ~Exists(last.pre, Target(1))

(***************************************************************************)
(* C10, as stated: after a successful create every non-directory entry     *)
(* declared read-only is read-only on disk, and every entry created        *)
(* without settings or with readonly = false is writable.                  *)
(***************************************************************************)
C10_ReadOnly ==
  (last.op = "create" /\ Succeeded) =>
    \A i \in 1..Len(last.cfg.entries) :
      (last.cfg.entries[i].kind # "Directory" /\ last.cfg.entries[i].path # <<>>) =>
        /\ last.cfg.entries[i].settings = "ro" =>
             (Exists(fs, Target(i)) /\ NodeAt(fs, Target(i)).ro)
        /\ (last.cfg.entries[i].settings # "ro" /\ ~Exists(last.trace[i], Target(i))) =>
             (Exists(fs, Target(i)) /\ ~NodeAt(fs, Target(i)).ro)

(***************************************************************************)
(* C10, amended: after a successful create a non-directory entry declared  *)
(* read-only is read-only on disk if it was not skipped (override_file is  *)
(* true, or its path did not exist when it was processed); an entry        *)
(* without settings or with readonly = false is writable if its path did   *)
(* not exist when it was processed and no later entry names its location.  *)
(***************************************************************************)
C10_ReadOnlyOfCreatedEntries ==
  (last.op = "create" /\ Succeeded) =>
    \A i \in 1..Len(last.cfg.entries) :
      last.cfg.entries[i].kind # "Directory" =>
        /\ (/\ last.cfg.entries[i].settings = "ro"
            /\ (last.cfg.override_file \/ ~Exists(last.trace[i], Target(i)))) =>
             (IsFile(fs, Target(i)) /\ NodeAt(fs, Target(i)).ro)
        /\ (last.cfg.entries[i].settings # "ro" /\ CreatedAndKept(i)) =>
             (IsFile(fs, Target(i)) /\ ~NodeAt(fs, Target(i)).ro)

\* a read-only text file and a writable one made by the same create
C10_Witness ==
  /\ last.op = "create"
  /\ Succeeded
  /\ \E i, j \in 1..Len(last.cfg.entries) :
       /\ last.cfg.entries[i].kind = "TextFile" /\ last.cfg.entries[i].settings = "ro"
       /\ ~Exists(last.trace[i], Target(i))
       /\ NodeAt(fs, Target(i)).ro
       /\ j # i /\ last.cfg.entries[j].settings # "ro" /\ CreatedAndKept(j)
       /\ ~NodeAt(fs, Target(j)).ro

\* entry i of the last materialization is the one that failed
Failed(i) == last.err.tag # "Ok" /\ Len(last.trace) = i + 1

\* entry i of the last create was skipped: its path existed, override_file off
Skipped(i) == ~last.cfg.override_file /\ Exists(last.trace[i], Target(i))

\* g is f with the node at p made read-only and nothing else changed
OnlyReadonlySet(f, g, p) ==
  LET At(loc) == g = Put(f, loc, [f[loc] EXCEPT !.ro = TRUE])
  IN At(Resolve(f, p).loc)

(***************************************************************************)
(* C11: in create, the settings block of an entry changes the filesystem   *)
(* only for a non-directory entry declared read-only that was not skipped  *)
(* and whose `match` succeeded: the `match` leaves a writable file holding *)
(* the whole declared content, and the block then sets the read-only bit   *)
(* of that file and nothing else.  A Directory entry declared read-only is *)
(* created as a writable directory, its permissions are left as the        *)
(* `match` left them, and the loop goes on to the next entry.              *)
(***************************************************************************)
C11_ReadOnlyAfterWrite ==
  last.op = "create" =>
    \A i \in 1..Len(last.cfg.entries) :
      Processed(i) =>
        IF \/ last.cfg.entries[i].settings # "ro"
           \/ last.cfg.entries[i].kind = "Directory"
           \/ Skipped(i)
           \/ Failed(i)
        THEN /\ last.trace[i + 1] = last.mids[i]
             /\ (/\ last.cfg.entries[i].kind = "Directory"
                 /\ last.cfg.entries[i].settings = "ro"
                 /\ ~Failed(i)) =>
                  /\ ~Skipped(i) =>
                       /\ IsDir(last.trace[i + 1], Target(i))
                       /\ ~NodeAt(last.trace[i + 1], Target(i)).ro
                  /\ i < Len(last.cfg.entries) => Processed(i + 1)
        ELSE /\ IsFile(last.mids[i], Target(i))
             /\ NodeAt(last.mids[i], Target(i)).content = last.cfg.entries[i].content
             /\ ~NodeAt(last.mids[i], Target(i)).ro
             /\ OnlyReadonlySet(last.mids[i], last.trace[i + 1], Target(i))

\* a create that made a directory declared read-only, left it writable, and
\* then wrote a text file under it and made that file read-only
C11_Witness ==
  /\ last.op = "create"
  /\ Succeeded
  /\ \E i, j \in 1..Len(last.cfg.entries) :
       /\ i < j
       /\ last.cfg.entries[i].kind = "Directory" /\ last.cfg.entries[i].settings = "ro"
       /\ ~Exists(last.trace[i], Target(i))
       /\ IsDir(fs, Target(i)) /\ ~NodeAt(fs, Target(i)).ro
       /\ last.cfg.entries[j].kind = "TextFile" /\ last.cfg.entries[j].settings = "ro"
       /\ last.cfg.entries[j].content # <<>>
       /\ ~NodeAt(last.mids[j], Target(j)).ro
       /\ NodeAt(fs, Target(j)).ro
       /\ NodeAt(fs, Target(j)).content = last.cfg.entries[j].content

\* the entries of the last materialization up to the one that failed
\* (0 when the root step failed)
FailedAt == IF last.trace = <<>> THEN 0 ELSE Len(last.trace) - 1

(***************************************************************************)
(* C12: when entry i of build or create fails, the call returns the error  *)
(* of that entry and no handle; what the root step and the entries before  *)
(* i left on disk is still there unchanged, the filesystem is the one      *)
(* entry i left (no later entry was processed), and the step that failed   *)
(* adds no handle, so no drop can delete anything on its behalf, even when *)
(* the auto-delete flag is true.                                           *)
(***************************************************************************)
C12_FailedEntry ==
  (last.op \in {"build", "create"} /\ last.err.tag # "Ok" /\ last.trace # <<>>) =>
    /\ FailedAt \in 1..Len(last.cfg.entries)
    /\ last.err = EntryStep(last.cfg, last.trace[FailedAt], FailedAt).err
    /\ \A k \in 1..(FailedAt - 1) :
         EntryStep(last.cfg, last.trace[k], k).err.tag = "Ok"
    /\ Kept(last.trace[FailedAt], fs)
    /\ fs = last.trace[FailedAt + 1]
    /\ last.h = 0

C12_NoHandle ==
  (nruns' # nruns /\ last'.err.tag # "Ok") =>
    /\ last'.h = 0
    /\ handles' = handles

MissingSourceAt(i) ==
  /\ last.op = "build"
  /\ Processed(i)
  /\ last.cfg.entries[i].kind = "FileToCopy"
  /\ ~Exists(last.trace[i], last.cfg.entries[i].source)
  /\ last.cfg.entries[i].path # <<>>
  /\ ~IsOutside(last.cfg.root, Target(i))
  /\ ~Exists(last.trace[i], Target(i))

\* the parent directory of entry i exists or can be created
ParentCreatable(i) ==
  HasParent(Target(i)) => CreateDirAll(last.trace[i], Parent(Target(i))).ok

(***************************************************************************)
(* C13: a build that reaches a FileToCopy entry whose source does not      *)
(* exist and whose destination is inside the root and free returns         *)
(* FailedToCopyFile carrying the source path, which is not the             *)
(* destination path, and no file exists at the destination afterwards.     *)
(***************************************************************************)
C13_MissingSource ==
  \A i \in 1..Len(last.cfg.entries) :
    MissingSourceAt(i) =>
      /\ last.err.tag = "FailedToCopyFile"
      /\ last.err.path = last.cfg.entries[i].source
      /\ last.err.path # Target(i)
      /\ ~Exists(fs, Target(i))

(***************************************************************************)
(* C13, amended: the same, for a destination whose parent directory exists *)
(* or can be created; the parent directories the entry needed are created  *)
(* and stay.                                                               *)
(***************************************************************************)
C13_MissingSourceUnderCreatableParent ==
  \A i \in 1..Len(last.cfg.entries) :
    (MissingSourceAt(i) /\ ParentCreatable(i)) =>
      /\ last.err.tag = "FailedToCopyFile"
      /\ last.err.path = last.cfg.entries[i].source
      /\ last.err.path # Target(i)
      /\ ~Exists(fs, Target(i))
      /\ HasParent(Target(i)) => IsDir(fs, Parent(Target(i)))

\* a copy from a missing source that made the parent directory of its
\* destination and then failed
C13_Witness ==
  /\ MissingSourceAt(1)
  /\ ParentCreatable(1)
  /\ ~IsDir(last.trace[1], Parent(Target(1)))
  /\ IsDir(fs, Parent(Target(1)))
  /\ last.err.tag = "FailedToCopyFile"

(***************************************************************************)
(* C14: a build whose loop reaches an entry with an empty path returns     *)
(* EmptyEntryName(n), n being the number of entries added before it; the   *)
(* entry changes nothing on disk (in particular it is not reported as a    *)
(* duplicate of the root, which its joined path names), and no handle is   *)
(* returned.                                                               *)
(***************************************************************************)
C14_EmptyEntryName ==
  last.op = "build" =>
    \A i \in 1..Len(last.cfg.entries) :
      (Processed(i) /\ last.cfg.entries[i].path = <<>>) =>
        /\ last.err = Err("EmptyEntryName", <<>>, i - 1, "none")
        /\ Exists(last.trace[i], EntryPath(last.cfg.root, <<>>))
        /\ last.trace[i + 1] = last.trace[i]
        /\ fs = last.trace[i]
        /\ last.h = 0

\* the second entry has an empty path, the first one was created
C14_Witness ==
  /\ last.op = "build"
  /\ Len(last.cfg.entries) = 2
  /\ last.cfg.entries[2].path = <<>>
  /\ Processed(2)
  /\ ~Exists(last.pre, Target(1))
  /\ Exists(fs, Target(1))
  /\ last.err.tag = "EmptyEntryName"
  /\ last.err.index = 1

C16_BuilderCall ==
  ncalls' # ncalls =>
    /\ fs' = fs
    /\ handles' = handles
    /\ last'.op = "config" /\ last'.err = NoErr /\ last'.pre = fs
    /\ builder'.variant = builder.variant
    /\ \/ /\ Len(builder'.entries) = Len(builder.entries) + 1
          /\ SubSeq(builder'.entries, 1, Len(builder.entries)) = builder.entries
          /\ builder' = [builder EXCEPT !.entries = builder'.entries]
       \/ builder' = [builder EXCEPT !.root = builder'.root]
       \/ builder' = [builder EXCEPT !.override_file = builder'.override_file]
       \/ builder' = [builder EXCEPT !.drop = builder'.drop]

C16_PureAccumulator == [][C16_BuilderCall]_vars

\* a builder that accepted an escaping path and then an empty one, in that
\* order, with nothing made on disk
C16_Witness ==
  /\ last.op = "config"
  /\ Len(builder.entries) = 2
  /\ builder.entries[1].path = <<"..", "s">>
  /\ builder.entries[2].path = <<>>
  /\ ~Exists(fs, builder.root)
  /\ handles = <<>>

(***************************************************************************)
(* C17: build and create leave the builder as it was (root, flags and      *)
(* entries), so it can be materialized again; a call that succeeds returns *)
(* one new handle, whose root and auto-delete flag are the builder's at    *)
(* the time of the call, and leaves the earlier handles alone.             *)
(***************************************************************************)
C17_Materialization ==
  (nruns' # nruns /\ last'.op \in {"build", "create"}) =>
    /\ builder' = builder
    /\ last'.cfg = builder
    /\ last'.err.tag = "Ok" =>
         /\ last'.h = Len(handles) + 1
         /\ Len(handles') = Len(handles) + 1
         /\ SubSeq(handles', 1, Len(handles)) = handles
         /\ handles'[last'.h].live
         /\ handles'[last'.h].root = builder.root
         /\ handles'[last'.h].drop = builder.drop

C17_BuilderNotConsumed == [][C17_Materialization]_vars

\* one builder with the auto-delete flag turned off and one entry,
\* materialized twice: two live handles with its root and its flag
C17_Witness ==
  /\ Succeeded
  /\ nruns = 2
  /\ last.h = 2
  /\ last.cfg = builder
  /\ Len(builder.entries) = 1
  /\ ~builder.drop
  /\ \A h \in 1..2 :
       handles[h].live /\ handles[h].root = builder.root /\ ~handles[h].drop

\* a path generated in the temporary directory
IsGenerated(root) ==
  Len(root) = Len(TempDir) + 1 /\ Parent(root) = TempDir /\ root[Len(root)] \in RandNames

(***************************************************************************)
(* C18: TreeBuilder::default() has no entries, override_file = false,      *)
(* drop = true and a generated root in the temporary directory; the        *)
(* builder the loader decodes from a document has override_file = false    *)
(* where the document omits `override_file`, drop = true where it omits    *)
(* `drop`, and a generated root in the temporary directory where it omits  *)
(* `root`; its entries are the document's.                                 *)
(***************************************************************************)
C18_Decoded ==
  last.op = "yaml" =>
    /\ last.cfg.variant = "tolerant"
    /\ last.doc.override_file = "absent" => ~last.cfg.override_file
    /\ last.doc.drop = "absent" => last.cfg.drop
    /\ last.doc.drop # "absent" => (last.cfg.drop <=> last.doc.drop = "true")
    /\ last.doc.root = <<>> => IsGenerated(last.cfg.root)
    /\ last.cfg.entries = last.doc.entries

C18_Constructed ==
  (/\ last'.op = "config" /\ ncalls' = ncalls /\ nruns' = nruns
   /\ builder'.variant = "tolerant") =>
    /\ builder'.entries = <<>>
    /\ ~builder'.override_file
    /\ builder'.drop
    /\ IsGenerated(builder'.root)

C18_Defaults == [](C18_Decoded) /\ [][C18_Constructed]_vars

\* a document that omits `root`, `override_file` and `drop` was loaded while
\* the program holds a default TreeBuilder: but for the entries, the decoded
\* builder is that builder
C18_Witness ==
  /\ last.op = "yaml"
  /\ Succeeded
  /\ last.doc.root = <<>>
  /\ last.doc.override_file = "absent"
  /\ last.doc.drop = "absent"
  /\ builder.variant = "tolerant"
  /\ ncalls = 0
  /\ [last.cfg EXCEPT !.entries = <<>>] = builder
  /\ builder.drop /\ ~builder.override_file /\ builder.entries = <<>>

\* the loop holds a candidate that does not exist on disk
FreeDrawn == draw.pc = "exists" /\ ~Exists(fs, draw.path)

(***************************************************************************)
(* C19: the root TempDirectoryBuilder::default() chooses is the candidate  *)
(* of the last iteration of random_temp_directory, a path in the temporary *)
(* directory that does not exist on disk when it is chosen; a candidate    *)
(* that exists is never returned and sends the loop to its next iteration; *)
(* a candidate that does not exist is returned by the very next step, so   *)
(* the call terminates whenever such a candidate is drawn.                 *)
(***************************************************************************)
C19_Chosen ==
  draw.pc = "returned" =>
    /\ builder.variant = "strict"
    /\ builder.root = draw.path
    /\ Parent(builder.root) = TempDir
    /\ ~Exists(fs, builder.root)
    /\ builder.entries = <<>> /\ builder.drop

C19_Iteration ==
  draw.pc = "exists" =>
    IF Exists(fs, draw.path)
    THEN draw'.pc = "loop" /\ builder' = builder
    ELSE draw'.pc = "returned" /\ builder'.root = draw.path

C20_DefaultRoot ==
  (/\ last'.op = "config" /\ ncalls' = ncalls /\ nruns' = nruns
   /\ builder'.variant = "tolerant") =>
    /\ ~Exists(fs, builder'.root)
    /\ \A h \in 1..Len(handles) : handles[h].live => handles[h].root # builder'.root

C20_UniqueFreshRoot == [][C20_DefaultRoot]_vars

\* the text of the last loader call is YAML that has `entries`, each with a
\* known `type` and, for a text_file, a `content`
Decodable(text) ==
  /\ text.syntax = "ok"
  /\ text.entries.present
  /\ \A i \in 1..Len(text.entries.val) :
       /\ text.entries.val[i].type \in {"directory", "empty_file", "text_file"}
       /\ text.entries.val[i].type = "text_file" => text.entries.val[i].content.present

\* builder b holds what the text says: its root, flags and entries in order
HoldsText(b, text) ==
  /\ b.variant = "tolerant"
  /\ IF text.root.present THEN b.root = text.root.val ELSE IsGenerated(b.root)
  /\ b.override_file = (text.override_file = "true")
  /\ b.drop = (text.drop # "false")
  /\ Len(b.entries) = Len(text.entries.val)
  /\ \A i \in 1..Len(b.entries) :
       /\ b.entries[i].path = text.entries.val[i].path
       /\ b.entries[i].kind =
            (CASE text.entries.val[i].type = "directory" -> "Directory"
               [] text.entries.val[i].type = "empty_file" -> "EmptyFile"
               [] OTHER -> "TextFile")
       /\ text.entries.val[i].type = "text_file" =>
            b.entries[i].content = text.entries.val[i].content.val
       /\ b.entries[i].settings =
            (CASE text.entries.val[i].settings = "absent" -> "none"
               [] text.entries.val[i].settings = "readonly_true" -> "ro"
               [] OTHER -> "rw")

\* the last call left what create leaves when run on builder b
OutcomeOfCreate(b) ==
  LET Same(m) ==
        /\ fs = m.fs
        /\ last.err = m.err
        /\ last.trace = m.trace
        /\ IF m.err.tag = "Ok"
           THEN /\ last.h = Len(handles)
                /\ handles[last.h].root = b.root
                /\ handles[last.h].drop = b.drop
                /\ handles[last.h].live
           ELSE last.h = 0
  IN Same(Materialize(last.pre, b))

C22_DropStep ==
  \A h \in 1..Len(handles) :
    (handles[h].live /\ ~handles'[h].live) =>
      \A loc \in DOMAIN fs \ handles[h].made :
        loc \in DOMAIN fs' /\ fs'[loc] = fs[loc]

C22_CleanupOfCreatedObjects == [][C22_DropStep]_vars

(***************************************************************************)
(* C23: the root of a handle that has not been dropped exists (the model   *)
(* has no actor but the library, so only the library can have removed it). *)
(***************************************************************************)
C23_LiveRootExists ==
  \A h \in 1..Len(handles) : handles[h].live => Exists(fs, handles[h].root)

\* where build puts entry i of builder b
PathOf(b, i) == EntryPath(b.root, b.entries[i].path)

\* the entries of b have non-empty paths that are inside the root and
\* pairwise distinct once joined and cleaned
DistinctInside(b) ==
  /\ \A i \in 1..Len(b.entries) :
       b.entries[i].path # <<>> /\ ~IsOutside(b.root, PathOf(b, i))
  /\ \A i, j \in 1..Len(b.entries) : i # j => PathOf(b, i) # PathOf(b, j)

\* no entry of b is at or above the path of another
NoneAboveAnother(b) ==
  \A i, j \in 1..Len(b.entries) : i # j => ~StartsWith(PathOf(b, i), PathOf(b, j))

\* b with its entries in the order p
Permuted(b, p) == [b EXCEPT !.entries = [i \in 1..Len(b.entries) |-> b.entries[p[i]]]]

\* the last build and a build of m's outcome both succeed or both fail, and
\* leave the same filesystem when they succeed
SameOutcome(m) ==
  /\ (last.err.tag = "Ok") <=> (m.err.tag = "Ok")
  /\ last.err.tag = "Ok" => fs = m.fs

OnlyDuplicateTextFiles ==
  /\ Len(last.cfg.entries) >= 2
  /\ \A i \in 1..Len(last.cfg.entries) :
       /\ last.cfg.entries[i].kind = "TextFile"
       /\ last.cfg.entries[i].path # <<>>
       /\ Target(i) = Target(1)

(***************************************************************************)
(* C25: a create in a fresh root of a builder whose entries are TextFile   *)
(* entries at one path succeeds, and the file holds the content of the     *)
(* first entry if override_file is false and of the last if it is true.    *)
(***************************************************************************)
C25_DuplicateTextFiles ==
  (last.op = "create" /\ ~Exists(last.pre, last.cfg.root) /\ OnlyDuplicateTextFiles) =>
    /\ Succeeded
    /\ IsFile(fs, Target(1))
    /\ NodeAt(fs, Target(1)).content =
         IF last.cfg.override_file
         THEN last.cfg.entries[Len(last.cfg.entries)].content
         ELSE last.cfg.entries[1].content
(***************************************************************************)
(* C26: build never rejects with EntryOutsideDirectory an entry whose path *)
(* is non-empty, relative and free of `..`, whatever the root: relative,   *)
(* not normalized, or written with trailing or redundant separators.       *)
(***************************************************************************)
\* entry i of the last build has a non-empty relative path without `..`
PlainPath(i) ==
  LET Plain(p) == p # <<>> /\ ~IsAbsolute(p) /\ \A k \in 1..Len(p) : p[k] # ".."
  IN Plain(last.cfg.entries[i].path)

C26_NoFalseRejection ==
  last.op = "build" =>
    \A i \in 1..Len(last.cfg.entries) :
      (PlainPath(i) /\ Failed(i)) => last.err.tag # "EntryOutsideDirectory"

(***************************************************************************)
(* C27: create with override_file = true overrides every existing file:    *)
(* a TextFile or EmptyFile entry that finds a regular file at its          *)
(* destination, read-only or not, does not fail, and the file holds the    *)
(* entry's content once the entry is processed.                            *)
(***************************************************************************)
\* entry i of the last create found a regular file at its destination
OverridesFile(i) ==
  /\ Processed(i)
  /\ last.cfg.entries[i].kind \in {"TextFile", "EmptyFile"}
  /\ IsFile(last.trace[i], Target(i))

C27_OverrideEveryFile ==
  (last.op = "create" /\ last.cfg.override_file) =>
    \A i \in 1..Len(last.cfg.entries) :
      OverridesFile(i) =>
        /\ ~Failed(i)
        /\ IsFile(last.trace[i + 1], Target(i))
        /\ NodeAt(last.trace[i + 1], Target(i)).content = last.cfg.entries[i].content

(***************************************************************************)
(* C28: after every successful create of the legacy Tree the returned path *)
(* equals root_folder and exists on disk as a directory, whatever the file *)
(* list, the empty one included.                                           *)
(***************************************************************************)
LegacySucceeded == last.op = "legacy" /\ last.err.tag = "Ok"

C28_LegacyRootExists ==
  LegacySucceeded =>
    /\ last.ret = Present(last.cfg.root_folder)
    /\ IsDir(fs, last.ret.val)

(***************************************************************************)
(* C29: build, and create with override_file = false, leave every object   *)
(* that was on disk before the call as it was (kind, content, permission), *)
(* whether they succeed or fail; whatever else is on disk after the call   *)
(* was created by it.                                                      *)
(***************************************************************************)
C29_MaterializationFrame ==
  (last.op = "build" \/ (last.op = "create" /\ ~last.cfg.override_file)) =>
    /\ Kept(last.pre, fs)
    /\ \A i \in 1..Len(last.trace) : Kept(last.pre, last.trace[i])

\* a create without override over a root that holds a file with other content
\* at the path of its first entry
C29_Witness ==
  /\ last.op = "create"
  /\ ~last.cfg.override_file
  /\ Succeeded
  /\ last.cfg.entries # <<>>
  /\ last.cfg.entries[1].kind = "TextFile"
  /\ IsFile(last.pre, Target(1))
  /\ NodeAt(last.pre, Target(1)).content # last.cfg.entries[1].content

(***************************************************************************)
(* C30: create rejects an entry with an empty path: whatever the entry's   *)
(* kind and the value of override_file, a create whose loop reaches such   *)
(* an entry returns an error, and the entry leaves the filesystem as it    *)
(* found it.                                                               *)
(***************************************************************************)
\* the loop of the last create reached entry i, whose path is empty
EmptyPathAt(i) == Processed(i) /\ last.cfg.entries[i].path = <<>>

C30_EmptyPathRejected ==
  last.op = "create" =>
    \A i \in 1..Len(last.cfg.entries) :
      EmptyPathAt(i) => (Failed(i) /\ last.trace[i + 1] = last.trace[i])

=============================================================================
